---------------------------- MODULE Spec2Model ----------------------------
(***************************************************************************)
(* A model of the recipe API (app/core/models.py, app/recipe/views.py,     *)
(* app/recipe/serializers.py): the Recipe, Tag and Ingredient tables, the  *)
(* owner-scoped viewsets over them, and the reconciliation of embedded tag *)
(* lists that RecipeSerializer.create performs.                            *)
(***************************************************************************)
EXTENDS Integers, Sequences, FiniteSets, TLC

\* ------------------------------------------------------------------ bounds
\* Identifiers are handed out by a per-table sequence; the model stops
\* creating rows once a table's sequence has passed its bound.
MaxRecipes == 2
MaxTags == 2
MaxIngredients == 2
\* The recipe and ingredient bounds of the specification that exercises
\* every endpoint.
MaxAccessRecipes == 1
MaxAccessIngredients == 1
\* The recipe bound of the specification of the list orders and of deletion.
MaxCatalogRecipes == 3
\* The longest embedded tags / ingredients list of a payload.
MaxList == 2
\* The longest uploaded filename, in characters, and the number of uploads.
MaxNameLen == 4
MaxUploads == 2
\* The most database checks one run of wait_for_db makes.
MaxChecks == 6

Users == {"u1", "u2"}
Names == {"a", "b"}
Titles == {"t1", "t2"}
NoImage == "none"
Processes == {"p1", "p2"}

VARIABLES
    recipes,      \* Recipe table: id -> [user, title, tags, ingredients, image]
    tags,         \* Tag table: id -> [user, name]
    ingredients,  \* Ingredient table: id -> [user, name]
    seq,          \* the tables' id sequences: [recipe, tag, ingredient, user]
    request,      \* the request handled last
    response,     \* its response
    inflight,     \* per process: a recipe create in progress (concurrent runs)
    users,        \* User table: id -> [email, name, password, is_active, is_staff, is_superuser]
    tokens,       \* authtoken Token table: key -> user id
    storage,      \* the media storage: the uploads made, [filename, path] each
    command       \* the wait_for_db run: [pc, outcomes, databases]

vars == <<recipes, tags, ingredients, seq, request, response, inflight, users, tokens, storage, command>>

\* ----------------------------------------------------------- dictionaries
\* A payload is a dictionary: a function whose domain is the keys present.
EmptyDict == [k \in {} |-> ""]

Ext(p, k, v) == [x \in (DOMAIN p) \cup {k} |-> IF x = k THEN v ELSE p[x]]

Opt(S, k, V) == S \cup {Ext(p, k, v) : p \in S, v \in V}

Restrict(p, K) == [x \in (DOMAIN p) \cap K |-> p[x]]

SeqsUpTo(S, n) == UNION {[1..k -> S] : k \in 0..n}

NameLists == SeqsUpTo(Names, MaxList)

Range(s) == {s[i] : i \in DOMAIN s}

\* Insert / delete a row of a table.
Insert(table, id, row) == [x \in (DOMAIN table) \cup {id} |-> IF x = id THEN row ELSE table[x]]

Remove(table, id) == [x \in (DOMAIN table) \ {id} |-> table[x]]

\* ----------------------------------------------------------------- models
\* core.models.Recipe: a new row has no tags, no ingredients and no image.
Recipe(u, title) ==
    [user |-> u, title |-> title, tags |-> {}, ingredients |-> {}, image |-> NoImage]

\* core.models.Tag
Tag(u, n) == [user |-> u, name |-> n]

\* core.models.Ingredient
Ingredient(u, n) == [user |-> u, name |-> n]


\* ------------------------------------------------------------ serializers
\* Mutant: the owner is a writable field of the recipe serializer.
RecipeSerializer_fields_with_user == {"title", "tags", "user"}

\* RecipeSerializer.Meta.fields without the read-only id: the keys of a
\* payload that reach validated_data.  Any other key is dropped unread.
RecipeSerializer_fields == {"title", "tags"}

\* TagSerializer.Meta.fields without the read-only id.
TagSerializer_fields == {"name"}

\* IngredientSerializer: referenced by recipe/views.py, not defined in
\* recipe/serializers.py; taken to mirror TagSerializer.
IngredientSerializer_fields == {"name"}

\* Mutant: the lookup selects by name alone, whoever owns the row.
Tag_objects_filter_any_owner(table, u, n) ==
    {t \in DOMAIN table : table[t].name = n}

\* The rows of a Tag table that user=u, name=n selects.
Tag_objects_filter(table, u, n) ==
    {t \in DOMAIN table : table[t].user = u /\ table[t].name = n}

\* Mutant: the lookup is skipped and a row is created every time.
get_or_create_always_creates(table, next, u, n) ==
    [table |-> Insert(table, next, Tag(u, n)), next |-> next + 1,
     obj |-> next, created |-> TRUE, raised |-> FALSE]

\* Tag.objects.get_or_create(user=u, name=n) on a Tag table whose sequence
\* stands at next: the row found, or a new row, or MultipleObjectsReturned
\* when more than one row matches.
get_or_create(table, next, u, n) ==
    LET found == Tag_objects_filter(table, u, n)
    IN  IF Cardinality(found) = 1
        THEN [table |-> table, next |-> next, obj |-> CHOOSE t \in found : TRUE,
              created |-> FALSE, raised |-> FALSE]
        ELSE IF found = {}
        THEN [table |-> Insert(table, next, Tag(u, n)), next |-> next + 1,
              obj |-> next, created |-> TRUE, raised |-> FALSE]
        ELSE [table |-> table, next |-> next, obj |-> 0,
              created |-> FALSE, raised |-> TRUE]

\* The loop of RecipeSerializer.create over the embedded tags, from item i
\* on.  st is [tags, next, attached, raised]; an exception ends the loop
\* and keeps what the earlier iterations wrote.
RECURSIVE create_loop(_, _, _, _)
create_loop(u, names, i, st) ==
    IF i > Len(names) \/ st.raised
    THEN st
    ELSE LET g == get_or_create(st.tags, st.next, u, names[i])
         IN  IF g.raised
             THEN [st EXCEPT !.raised = TRUE]
             ELSE create_loop(u, names, i + 1,
                      [tags |-> g.table, next |-> g.next,
                       attached |-> st.attached \cup {g.obj}, raised |-> FALSE])

\* RecipeSerializer.create(validated_data) for the authenticated user u:
\* the recipe row is inserted first (owner and title from validated_data),
\* then each embedded tag is got or created for u and added to the recipe.
RecipeSerializer_create(u, validated_data) ==
    LET names == IF "tags" \in DOMAIN validated_data
                 THEN validated_data["tags"] ELSE << >>
        id == seq.recipe
        st == create_loop(u, names, 1,
                  [tags |-> tags, next |-> seq.tag, attached |-> {}, raised |-> FALSE])
        row == [Recipe(validated_data["user"], validated_data["title"])
                    EXCEPT !.tags = st.attached]
    IN  [recipes |-> Insert(recipes, id, row), tags |-> st.tags,
         seq |-> [seq EXCEPT !.recipe = id + 1, !.tag = st.next],
         id |-> id, raised |-> st.raised]

\* ------------------------------------------------------------------ views
\* Descending order of a set of ids, as a sequence.
OrderByIdDesc(S) ==
    CHOOSE s \in [1..Cardinality(S) -> S] :
        /\ Range(s) = S
        /\ \A i, j \in DOMAIN s : i < j => s[i] > s[j]

NameOrd(n) == IF n = "a" THEN 1 ELSE 2

\* The orders of the rows S of a table by name, descending; rows of equal
\* name come in any order.
OrderByNameDesc(table, S) ==
    {s \in [1..Cardinality(S) -> S] :
        /\ Range(s) = S
        /\ \A i, j \in DOMAIN s :
              i < j => NameOrd(table[s[i]].name) >= NameOrd(table[s[j]].name)}

\* Mutant: the queryset is ordered by id, ascending.
RecipeViewSet_get_queryset_ascending(u, params) ==
    LET S == {id \in DOMAIN recipes : recipes[id].user = u}
    IN  CHOOSE s \in [1..Cardinality(S) -> S] :
            /\ Range(s) = S
            /\ \A i, j \in DOMAIN s : i < j => s[i] < s[j]

\* Mutant: the queryset is not filtered by owner.
RecipeViewSet_get_queryset_unscoped(u, params) == OrderByIdDesc(DOMAIN recipes)

\* RecipeViewSet.get_queryset: the requester's recipes, newest id first.
\* Query parameters are not read.
RecipeViewSet_get_queryset(u, params) ==
    OrderByIdDesc({id \in DOMAIN recipes : recipes[id].user = u})

\* BaseRecipeAttrViewSet.get_queryset over the Tag or Ingredient table: the
\* requester's rows by name, descending.  Query parameters are not read.
BaseRecipeAttrViewSet_get_queryset(table, u, params) ==
    OrderByNameDesc(table, {id \in DOMAIN table : table[id].user = u})

Table(kind) == IF kind = "tag" THEN tags ELSE ingredients

Kinds == {"tag", "ingredient"}

AttrSerializer_fields(kind) ==
    IF kind = "tag" THEN TagSerializer_fields ELSE IngredientSerializer_fields

\* What a handler leaves behind: the request it served and its response.
Respond(op, u, id, payload, status, data) ==
    /\ request' = [op |-> op, user |-> u, id |-> id, payload |-> payload]
    /\ response' = [status |-> status, data |-> data]

\* --------------------------------------------------------------- requests
Quiet == UNCHANGED <<recipes, tags, ingredients, seq, inflight, users, tokens, storage, command>>

\* ------------------------------------------------------- recipe endpoints
\* GET /recipes/: ListModelMixin.list over get_queryset.
RecipeList(u, params) ==
    /\ Quiet
    /\ Respond("recipe_list", u, 0, params, 200, RecipeViewSet_get_queryset(u, params))

\* GET /recipes/<id>/: get_object looks the id up in get_queryset.
RecipeRetrieve(u, id) ==
    /\ Quiet
    /\ IF id \in Range(RecipeViewSet_get_queryset(u, EmptyDict))
       THEN Respond("recipe_retrieve", u, id, EmptyDict, 200, <<id>>)
       ELSE Respond("recipe_retrieve", u, id, EmptyDict, 404, << >>)

\* POST /recipes/: the serializer validates (title is required), then
\* perform_create saves with user=request.user, which runs
\* RecipeSerializer.create.  An exception in the loop answers 500 and
\* leaves what was written before it.
RecipeCreate(u, payload) ==
    LET data == Restrict(payload, RecipeSerializer_fields)
    IN  /\ UNCHANGED <<ingredients, inflight, users, tokens, storage, command>>
        /\ IF "title" \notin DOMAIN data
           THEN /\ UNCHANGED <<recipes, tags, seq>>
                /\ Respond("recipe_create", u, 0, payload, 400, << >>)
           ELSE LET r == RecipeSerializer_create(u, Ext(data, "user", u))
                IN  /\ r.seq.tag <= MaxTags + 1
                    /\ recipes' = r.recipes
                    /\ tags' = r.tags
                    /\ seq' = r.seq
                    /\ IF r.raised
                       THEN Respond("recipe_create", u, r.id, payload, 500, << >>)
                       ELSE Respond("recipe_create", u, r.id, payload, 201, <<r.id>>)

\* ModelSerializer.update of a row: every key of validated_data is set on
\* the instance, which is then saved.
ModelSerializer_update(row, validated_data) ==
    [k \in DOMAIN row |-> IF k \in DOMAIN validated_data THEN validated_data[k] ELSE row[k]]

\* RecipeSerializer inherits ModelSerializer.update (it defines no update
\* of its own), which refuses a nested list in validated_data with an
\* AssertionError before it writes anything.
RecipeSerializer_update(row, validated_data) ==
    IF "tags" \in DOMAIN validated_data
    THEN [raised |-> TRUE, row |-> row]
    ELSE [raised |-> FALSE, row |-> ModelSerializer_update(row, validated_data)]

\* PUT / PATCH /recipes/<id>/: get_object (404), validation (a PUT needs
\* the title), then the serializer's update.
RecipeUpdate(u, id, payload, partial) ==
    LET op == IF partial THEN "recipe_partial_update" ELSE "recipe_update"
        data == Restrict(payload, RecipeSerializer_fields)
    IN  /\ UNCHANGED <<tags, ingredients, seq, inflight, users, tokens, storage, command>>
        /\ IF id \notin Range(RecipeViewSet_get_queryset(u, EmptyDict))
           THEN /\ UNCHANGED recipes
                /\ Respond(op, u, id, payload, 404, << >>)
           ELSE IF ~partial /\ "title" \notin DOMAIN data
           THEN /\ UNCHANGED recipes
                /\ Respond(op, u, id, payload, 400, << >>)
           ELSE LET r == RecipeSerializer_update(recipes[id], data)
                IN  /\ recipes' = [recipes EXCEPT ![id] = r.row]
                    /\ IF r.raised
                       THEN Respond(op, u, id, payload, 500, << >>)
                       ELSE Respond(op, u, id, payload, 200, <<id>>)

\* Mutant: the tags of the recipe are deleted with it.
RecipeDestroy_cascades(u, id) ==
    /\ UNCHANGED <<ingredients, seq, inflight, users, tokens, storage, command>>
    /\ IF id \notin Range(RecipeViewSet_get_queryset(u, EmptyDict))
       THEN /\ UNCHANGED <<recipes, tags>>
            /\ Respond("recipe_destroy", u, id, EmptyDict, 404, << >>)
       ELSE /\ recipes' = Remove(recipes, id)
            /\ tags' = [t \in DOMAIN tags \ recipes[id].tags |-> tags[t]]
            /\ Respond("recipe_destroy", u, id, EmptyDict, 204, << >>)

\* DELETE /recipes/<id>/: get_object (404), then the row and its
\* associations are removed.
RecipeDestroy(u, id) ==
    /\ UNCHANGED <<tags, ingredients, seq, inflight, users, tokens, storage, command>>
    /\ IF id \notin Range(RecipeViewSet_get_queryset(u, EmptyDict))
       THEN /\ UNCHANGED recipes
            /\ Respond("recipe_destroy", u, id, EmptyDict, 404, << >>)
       ELSE /\ recipes' = Remove(recipes, id)
            /\ Respond("recipe_destroy", u, id, EmptyDict, 204, << >>)

\* RecipeImageSerializer: named by get_serializer_class, not defined in
\* recipe/serializers.py.  Its is_valid accepts a well-formed image only,
\* and its save stores the file and records the path.
RecipeImageSerializer_is_valid(file) == file = "image"

StoredImage == "uploads/recipe/uuid.jpg"

\* Mutant: the image is saved before the serializer is asked whether it
\* is valid.
upload_image_saves_first(u, id, file) ==
    LET payload == Ext(EmptyDict, "image", file)
    IN  /\ UNCHANGED <<tags, ingredients, seq, inflight, users, tokens, storage, command>>
        /\ IF id \notin Range(RecipeViewSet_get_queryset(u, EmptyDict))
           THEN /\ UNCHANGED recipes
                /\ Respond("recipe_upload_image", u, id, payload, 404, << >>)
           ELSE /\ recipes' = [recipes EXCEPT ![id].image = StoredImage]
                /\ IF RecipeImageSerializer_is_valid(file)
                   THEN Respond("recipe_upload_image", u, id, payload, 200, <<id>>)
                   ELSE Respond("recipe_upload_image", u, id, payload, 400, << >>)

\* POST /recipes/<id>/upload-image/: get_object (404), then 200 with the
\* image saved, or 400 with the serializer's errors.
upload_image(u, id, file) ==
    LET payload == Ext(EmptyDict, "image", file)
    IN  /\ UNCHANGED <<tags, ingredients, seq, inflight, users, tokens, storage, command>>
        /\ IF id \notin Range(RecipeViewSet_get_queryset(u, EmptyDict))
           THEN /\ UNCHANGED recipes
                /\ Respond("recipe_upload_image", u, id, payload, 404, << >>)
           ELSE IF RecipeImageSerializer_is_valid(file)
           THEN /\ recipes' = [recipes EXCEPT ![id].image = StoredImage]
                /\ Respond("recipe_upload_image", u, id, payload, 200, <<id>>)
           ELSE /\ UNCHANGED recipes
                /\ Respond("recipe_upload_image", u, id, payload, 400, << >>)

\* ----------------------------------------------- tag / ingredient endpoints
Op(kind, action) == IF kind = "tag" THEN "tag_" \o action ELSE "ingredient_" \o action

SetTable(kind, table) ==
    IF kind = "tag"
    THEN tags' = table /\ UNCHANGED ingredients
    ELSE ingredients' = table /\ UNCHANGED tags

\* GET /tags/, /ingredients/: ListModelMixin.list over get_queryset.
AttrList(kind, u, params) ==
    /\ Quiet
    /\ \E data \in BaseRecipeAttrViewSet_get_queryset(Table(kind), u, params) :
          Respond(Op(kind, "list"), u, 0, params, 200, data)

\* ids of the requester's rows of a kind, as get_object sees them.
AttrVisible(kind, u) ==
    UNION {Range(s) : s \in BaseRecipeAttrViewSet_get_queryset(Table(kind), u, EmptyDict)}

\* GET /tags/<id>/, /ingredients/<id>/
AttrRetrieve(kind, u, id) ==
    /\ Quiet
    /\ IF id \in AttrVisible(kind, u)
       THEN Respond(Op(kind, "retrieve"), u, id, EmptyDict, 200, <<id>>)
       ELSE Respond(Op(kind, "retrieve"), u, id, EmptyDict, 404, << >>)

\* PUT / PATCH /tags/<id>/, /ingredients/<id>/: get_object (404),
\* validation (a PUT needs the name), then the update.
AttrUpdate(kind, u, id, payload, partial) ==
    LET op == Op(kind, IF partial THEN "partial_update" ELSE "update")
        data == Restrict(payload, AttrSerializer_fields(kind))
    IN  /\ UNCHANGED <<recipes, seq, inflight, users, tokens, storage, command>>
        /\ IF id \notin AttrVisible(kind, u)
           THEN /\ UNCHANGED <<tags, ingredients>>
                /\ Respond(op, u, id, payload, 404, << >>)
           ELSE IF ~partial /\ "name" \notin DOMAIN data
           THEN /\ UNCHANGED <<tags, ingredients>>
                /\ Respond(op, u, id, payload, 400, << >>)
           ELSE /\ SetTable(kind, [Table(kind) EXCEPT
                                      ![id] = ModelSerializer_update(@, data)])
                /\ Respond(op, u, id, payload, 200, <<id>>)

\* POST /tags/, /ingredients/: CreateModelMixin.create validates (the name
\* is required) and saves; BaseRecipeAttrViewSet has no perform_create that
\* passes the owner, so the insert lacks the user the table requires and is
\* refused: 500, no row.
AttrCreate(kind, u, payload) ==
    LET data == Restrict(payload, AttrSerializer_fields(kind))
    IN  /\ Quiet
        /\ IF "name" \notin DOMAIN data
           THEN Respond(Op(kind, "create"), u, 0, payload, 400, << >>)
           ELSE Respond(Op(kind, "create"), u, 0, payload, 500, << >>)

\* The recipes without their associations to row id of a kind (the rows of
\* the many-to-many table go with the row they point to).
Detach(kind, id) ==
    [r \in DOMAIN recipes |->
        IF kind = "tag"
        THEN [recipes[r] EXCEPT !.tags = @ \ {id}]
        ELSE [recipes[r] EXCEPT !.ingredients = @ \ {id}]]

\* DELETE /tags/<id>/, /ingredients/<id>/
AttrDestroy(kind, u, id) ==
    /\ UNCHANGED <<seq, inflight, users, tokens, storage, command>>
    /\ IF id \notin AttrVisible(kind, u)
       THEN /\ UNCHANGED <<recipes, tags, ingredients>>
            /\ Respond(Op(kind, "destroy"), u, id, EmptyDict, 404, << >>)
       ELSE /\ SetTable(kind, Remove(Table(kind), id))
            /\ recipes' = Detach(kind, id)
            /\ Respond(Op(kind, "destroy"), u, id, EmptyDict, 204, << >>)

\* ---------------------------------------------------------------- fixtures
\* No endpoint of recipe/views.py writes an Ingredient row or a recipe's
\* ingredients; the tests build them through the models, always for one
\* owner and with names that owner does not have yet.
Ingredient_objects_create(u, n) ==
    /\ seq.ingredient <= MaxIngredients
    /\ \A i \in DOMAIN ingredients : ~(ingredients[i].user = u /\ ingredients[i].name = n)
    /\ ingredients' = Insert(ingredients, seq.ingredient, Ingredient(u, n))
    /\ seq' = [seq EXCEPT !.ingredient = @ + 1]
    /\ UNCHANGED <<recipes, tags, inflight, users, tokens, storage, command>>
    /\ Respond("orm_ingredient_create", u, seq.ingredient, EmptyDict, 0, << >>)

recipe_ingredients_add(r, i) ==
    /\ r \in DOMAIN recipes /\ i \in DOMAIN ingredients
    /\ recipes[r].user = ingredients[i].user
    /\ i \notin recipes[r].ingredients
    /\ recipes' = [recipes EXCEPT ![r].ingredients = @ \cup {i}]
    /\ UNCHANGED <<tags, ingredients, seq, inflight, users, tokens, storage, command>>
    /\ Respond("orm_ingredients_add", recipes[r].user, r, EmptyDict, 0, << >>)

\* ----------------------------------------------------------- specification
Idle == [p \in Processes |-> [pc |-> "idle"]]

Init ==
    /\ recipes = EmptyDict
    /\ tags = EmptyDict
    /\ ingredients = EmptyDict
    /\ seq = [recipe |-> 1, tag |-> 1, ingredient |-> 1, user |-> 1]
    /\ request = [op |-> "none", user |-> "u1", id |-> 0, payload |-> EmptyDict]
    /\ response = [status |-> 0, data |-> << >>]
    /\ inflight = Idle
    /\ users = EmptyDict
    /\ tokens = EmptyDict
    /\ storage = << >>
    /\ command = [pc |-> "idle", outcomes |-> << >>, databases |-> << >>]

RecipeIds == 1..MaxRecipes

AttrIds(kind) == IF kind = "tag" THEN 1..MaxTags ELSE 1..MaxIngredients

\* Spec: the recipe and tag endpoints under embedded tag lists of every
\* shape up to MaxList, for two users.
TagListPayloads == Opt({[title |-> "t1"]}, "tags", NameLists)

TagPatchPayloads == Opt({EmptyDict}, "tags", NameLists)

RenamePayloads == {[name |-> n] : n \in Names}

Next ==
    \/ \E u \in Users : RecipeList(u, EmptyDict)
    \/ \E u \in Users, id \in RecipeIds : RecipeRetrieve(u, id)
    \/ \E u \in Users, p \in TagListPayloads :
          seq.recipe <= MaxRecipes /\ RecipeCreate(u, p)
    \/ \E u \in Users, id \in RecipeIds, p \in TagPatchPayloads :
          RecipeUpdate(u, id, p, TRUE)
    \/ \E u \in Users, id \in RecipeIds, p \in TagListPayloads :
          RecipeUpdate(u, id, p, FALSE)
    \/ \E u \in Users, id \in RecipeIds : RecipeDestroy(u, id)
    \/ \E u \in Users : AttrList("tag", u, EmptyDict)
    \/ \E u \in Users, id \in AttrIds("tag"), p \in RenamePayloads :
          AttrUpdate("tag", u, id, p, TRUE)
    \/ \E u \in Users, id \in AttrIds("tag") : AttrDestroy("tag", u, id)

Spec == Init /\ [][Next]_vars

\* SpecAccess: every endpoint of the three viewsets, with payloads that
\* name an owner and query parameters, over at most MaxAccessRecipes
\* recipes.
AccessCreatePayloads ==
    Opt(Opt(Opt({[title |-> "t1"]}, "tags", {<<"a">>}), "ingredients", {<<"a">>}),
        "user", Users)

AccessUpdatePayloads == Opt(Opt({EmptyDict}, "title", Titles), "user", Users)

AccessAttrPayloads == Opt(Opt({EmptyDict}, "name", Names), "user", Users)

\* Query parameters of the recipe list: comma-separated id lists.
AccessRecipeParams == Opt(Opt({EmptyDict}, "tags", {{1}}), "ingredients", {{1}})

\* Query parameters of the tag / ingredient list.
AccessAttrParams == Opt({EmptyDict}, "assigned_only", {"1"})

AccessRecipeIds == 1..MaxAccessRecipes

\* Each recipe of this specification embeds at most one tag.
AccessAttrIds(kind) == IF kind = "tag" THEN 1..MaxAccessRecipes ELSE 1..MaxAccessIngredients

NextAccess ==
    \/ \E u \in Users, q \in AccessRecipeParams : RecipeList(u, q)
    \/ \E u \in Users, id \in AccessRecipeIds : RecipeRetrieve(u, id)
    \/ \E u \in Users, p \in AccessCreatePayloads :
          seq.recipe <= MaxAccessRecipes /\ RecipeCreate(u, p)
    \/ \E u \in Users, id \in AccessRecipeIds, p \in AccessUpdatePayloads, partial \in BOOLEAN :
          RecipeUpdate(u, id, p, partial)
    \/ \E u \in Users, id \in AccessRecipeIds : RecipeDestroy(u, id)
    \/ \E u \in Users, id \in AccessRecipeIds, f \in {"image", "text"} :
          upload_image(u, id, f)
    \/ \E k \in Kinds, u \in Users, q \in AccessAttrParams : AttrList(k, u, q)
    \/ \E k \in Kinds : \E u \in Users, id \in AccessAttrIds(k) : AttrRetrieve(k, u, id)
    \/ \E k \in Kinds : \E u \in Users, id \in AccessAttrIds(k), p \in AccessAttrPayloads,
                            partial \in BOOLEAN :
          AttrUpdate(k, u, id, p, partial)
    \/ \E k \in Kinds : \E u \in Users, id \in AccessAttrIds(k) : AttrDestroy(k, u, id)
    \/ \E u \in Users, n \in Names :
          seq.ingredient <= MaxAccessIngredients /\ Ingredient_objects_create(u, n)
    \/ \E r \in AccessRecipeIds, i \in AccessAttrIds("ingredient") : recipe_ingredients_add(r, i)

SpecAccess == Init /\ [][NextAccess]_vars

\* SpecCatalog: creation, listing and deletion of recipes, tags and
\* ingredients over up to MaxCatalogRecipes recipes, with tags and
\* ingredients whose id order differs from their name order.
CatalogCreatePayloads == Opt({[title |-> "t1"]}, "tags", {<<"b", "a">>})

CatalogRecipeIds == 1..MaxCatalogRecipes

NextCatalog ==
    \/ \E u \in Users : RecipeList(u, EmptyDict)
    \/ \E u \in Users, p \in CatalogCreatePayloads :
          seq.recipe <= MaxCatalogRecipes /\ RecipeCreate(u, p)
    \/ \E u \in Users, id \in CatalogRecipeIds : RecipeDestroy(u, id)
    \/ \E k \in Kinds, u \in Users : AttrList(k, u, EmptyDict)
    \/ \E k \in Kinds : \E u \in Users, id \in AttrIds(k) : AttrDestroy(k, u, id)
    \/ \E u \in Users :
          Ingredient_objects_create(u, IF seq.ingredient = 1 THEN "b" ELSE "a")
    \/ \E r \in CatalogRecipeIds, i \in AccessAttrIds("ingredient") :
          recipe_ingredients_add(r, i)

SpecCatalog == Init /\ [][NextCatalog]_vars

\* ------------------------------------------------------ concurrent creates
\* SpecConc: each process serves one POST /recipes/; the statements of
\* RecipeSerializer.create run as separate database statements (no
\* transaction is opened around them), so the statements of two requests
\* interleave.  inflight[p] is [pc, user, names, i, recipe, obj, status].

\* Line 36, Recipe.objects.create: the recipe row is inserted.
ConcBegin(p, u, payload) ==
    /\ inflight[p].pc = "idle"
    /\ "title" \in DOMAIN payload
    /\ recipes' = Insert(recipes, seq.recipe, Recipe(u, payload["title"]))
    /\ seq' = [seq EXCEPT !.recipe = @ + 1]
    /\ inflight' = [inflight EXCEPT ![p] =
           [pc |-> "get", user |-> u,
            names |-> IF "tags" \in DOMAIN payload THEN payload["tags"] ELSE << >>,
            i |-> 1, recipe |-> seq.recipe, obj |-> 0, status |-> 0]]
    /\ UNCHANGED <<tags, ingredients, request, response, users, tokens, storage, command>>

\* Lines 38-39: the loop test, and the lookup of get_or_create.
ConcGet(p) ==
    LET f == inflight[p]
    IN  /\ f.pc = "get"
        /\ IF f.i > Len(f.names)
           THEN inflight' = [inflight EXCEPT ![p].pc = "done", ![p].status = 201]
           ELSE LET found == Tag_objects_filter(tags, f.user, f.names[f.i])
                IN  IF found = {}
                    THEN inflight' = [inflight EXCEPT ![p].pc = "create"]
                    ELSE IF Cardinality(found) = 1
                    THEN inflight' = [inflight EXCEPT ![p].pc = "add",
                                          ![p].obj = CHOOSE t \in found : TRUE]
                    ELSE inflight' = [inflight EXCEPT ![p].pc = "done", ![p].status = 500]
        /\ UNCHANGED <<recipes, tags, ingredients, seq, request, response, users, tokens, storage, command>>

\* Line 39: the insert of get_or_create, after a lookup that found nothing.
ConcCreate(p) ==
    LET f == inflight[p]
    IN  /\ f.pc = "create"
        /\ seq.tag <= MaxTags
        /\ tags' = Insert(tags, seq.tag, Tag(f.user, f.names[f.i]))
        /\ seq' = [seq EXCEPT !.tag = @ + 1]
        /\ inflight' = [inflight EXCEPT ![p].pc = "add", ![p].obj = seq.tag]
        /\ UNCHANGED <<recipes, ingredients, request, response, users, tokens, storage, command>>

\* Line 42: recipe.tags.add(tag_object).
ConcAdd(p) ==
    LET f == inflight[p]
    IN  /\ f.pc = "add"
        /\ recipes' = [recipes EXCEPT ![f.recipe].tags = @ \cup {f.obj}]
        /\ inflight' = [inflight EXCEPT ![p].pc = "get", ![p].i = f.i + 1]
        /\ UNCHANGED <<tags, ingredients, seq, request, response, users, tokens, storage, command>>

NextConc ==
    \/ \E p \in Processes, u \in Users, payload \in TagListPayloads :
          seq.recipe <= MaxRecipes /\ ConcBegin(p, u, payload)
    \/ \E p \in Processes : ConcGet(p)
    \/ \E p \in Processes : ConcCreate(p)
    \/ \E p \in Processes : ConcAdd(p)

SpecConc == Init /\ [][NextConc]_vars

\* ----------------------------------------------------------- image paths
\* A filename is a string over a letter, the dot and the path separator;
\* a path is a string too, with "uploads", "recipe" and a uuid as single
\* symbols.
Chars == {"a", ".", "/"}

Filenames == SeqsUpTo(Chars, MaxNameLen)

\* The last position of character c in p, 0 when there is none (str.rfind).
rfind(p, c) ==
    IF \E k \in DOMAIN p : p[k] = c
    THEN CHOOSE k \in DOMAIN p : p[k] = c /\ \A j \in DOMAIN p : p[j] = c => j <= k
    ELSE 0

\* os.path.splitext(p)[1]: the part from the last dot of the last path
\* component on, unless that component has only dots before it.
os_path_splitext_ext(p) ==
    LET sepIndex == rfind(p, "/")
        dotIndex == rfind(p, ".")
    IN  IF dotIndex > sepIndex /\ \E k \in (sepIndex + 1)..(dotIndex - 1) : p[k] # "."
        THEN SubSeq(p, dotIndex, Len(p))
        ELSE << >>

\* os.path.join(a, b): b alone when it is absolute, else a and b with one
\* separator between them.
os_path_join(a, b) ==
    IF b # << >> /\ b[1] = "/" THEN b
    ELSE IF a = << >> \/ a[Len(a)] = "/" THEN a \o b
    ELSE a \o <<"/">> \o b

\* Mutant: the file keeps the name it was uploaded under.
recipe_image_file_path_keeps_name(uuid, filename) ==
    os_path_join(os_path_join(<<"uploads">>, <<"recipe">>), filename)

\* recipe_image_file_path(instance, filename), with the value uuid4()
\* returned.
recipe_image_file_path(uuid, filename) ==
    LET extension == os_path_splitext_ext(filename)
    IN  os_path_join(os_path_join(<<"uploads">>, <<"recipe">>), <<uuid>> \o extension)

\* str(uuid4()): as many values as there are uploads.
Uuids == {"uuid" \o ToString(k) : k \in 1..MaxUploads}

\* The values uuid4() has returned so far.
UsedUuids == {storage[i].uuid : i \in DOMAIN storage}

\* Recipe.image is an ImageField with upload_to=recipe_image_file_path: a
\* file saved to it is stored under the path the function returns.  uuid4
\* draws 122 random bits; a draw is taken to differ from the earlier ones.
ImageField_save(filename) ==
    /\ Len(storage) < MaxUploads
    /\ \E uuid \in Uuids \ UsedUuids :
          storage' = Append(storage, [filename |-> filename, uuid |-> uuid,
                                      path |-> recipe_image_file_path(uuid, filename)])
    /\ UNCHANGED <<recipes, tags, ingredients, seq, request, response, inflight, users, tokens, command>>

\* SpecImage: uploads under every filename up to MaxNameLen characters.
NextImage == \E filename \in Filenames : ImageField_save(filename)

SpecImage == Init /\ [][NextImage]_vars

\* ------------------------------------------------------------------ users
\* request.user of a request that carries no valid token.
Anonymous == "anonymous"

\* The primary keys the User table hands out, in order.
UserIds == <<"u1", "u2">>

\* An email address is a local part and a domain.
Emails == {[local |-> l, domain |-> d] : l \in {"a", "b"}, d \in {"x", "X"}}

\* The empty string as an email.
BlankEmail == [local |-> "", domain |-> ""]

\* str.lower on the domains of Emails.
Lower(d) == IF d = "X" THEN "x" ELSE d

\* BaseUserManager.normalize_email: the domain part is lowercased.
normalize_email(email) == [email EXCEPT !.domain = Lower(@)]

\* Mutant: the password is kept as submitted.
make_password_plaintext(raw) == raw

\* AbstractBaseUser.set_password stores make_password(raw): a one-way
\* encoding of the raw password.
make_password(raw) == "pbkdf2_sha256$" \o raw

\* AbstractBaseUser.check_password(raw) against the stored credential.
check_password(raw, encoded) == encoded = "pbkdf2_sha256$" \o raw

\* core.models.User: a new row is active and has no elevated flag.
User(email, name, password) ==
    [email |-> email, name |-> name, password |-> password,
     is_active |-> TRUE, is_staff |-> FALSE, is_superuser |-> FALSE]

\* The unique constraint of User.email: the rows that hold the email.
User_email_rows(table, email) == {u \in DOMAIN table : table[u].email = email}

\* Mutant: save does not check the unique constraint of User.email.
User_save_unchecked(table, id, row) == [raised |-> FALSE, table |-> Insert(table, id, row)]

\* Model.save of a User row under id: the insert or update is refused with
\* an IntegrityError when another row holds the same email.
User_save(table, id, row) ==
    IF User_email_rows(table, row.email) \ {id} # {}
    THEN [raised |-> TRUE, table |-> table]
    ELSE [raised |-> FALSE, table |-> Insert(table, id, row)]

\* None as an email: the argument left out.
MissingEmail == [local |-> "None", domain |-> "None"]

\* The emails that Python takes as false: '' and None.
FalsyEmails == {BlankEmail, MissingEmail}

\* Mutant: the row is saved before the email is looked at.
create_user_saves_first(table, next, email, password, name) ==
    LET row == User(normalize_email(email), name, make_password(password))
        s == User_save(table, UserIds[next], row)
    IN  IF email \in FalsyEmails
        THEN [raised |-> "ValueError", users |-> s.table, next |-> next + 1,
              id |-> Anonymous]
        ELSE [raised |-> IF s.raised THEN "IntegrityError" ELSE "",
              users |-> s.table, next |-> next + 1, id |-> UserIds[next]]

\* UserManager.create_user(email, password, name=name) on a User table
\* whose sequence stands at next.  The sequence advances also when the
\* insert is refused.
create_user(table, next, email, password, name) ==
    LET row == User(normalize_email(email), name, make_password(password))
        s == User_save(table, UserIds[next], row)
    IN  IF email \in FalsyEmails
        THEN [raised |-> "ValueError", users |-> table, next |-> next, id |-> Anonymous]
        ELSE [raised |-> IF s.raised THEN "IntegrityError" ELSE "",
              users |-> s.table, next |-> next + 1, id |-> UserIds[next]]

\* Mutant: create_superuser sets no flag.
create_superuser_plain(table, next, email, password) ==
    create_user(table, next, email, password, "")

\* UserManager.create_superuser(email, password): the user of create_user
\* without extra fields, then both flags set and the row saved again under
\* its id.  An error of create_user propagates before the flags are set.
create_superuser(table, next, email, password) ==
    LET c == create_user(table, next, email, password, "")
        user == [c.users[c.id] EXCEPT !.is_staff = TRUE, !.is_superuser = TRUE]
        s == User_save(c.users, c.id, user)
    IN  IF c.raised # ""
        THEN c
        ELSE [raised |-> IF s.raised THEN "IntegrityError" ELSE "",
              users |-> s.table, next |-> c.next, id |-> c.id]

\* ------------------------------------------------------- user serializers
\* The shortest password the user serializer accepts.
MinPasswordLength == 5

\* UserSerializer (user/serializers.py is not among the sources): a model
\* serializer over email, password and name, the password write-only and
\* of the minimum length.
UserSerializer_fields == {"email", "password", "name"}

\* Mutant: the serializer sets no minimum length on the password.
UserSerializer_errors_any_length(payload, instance, partial) ==
    LET data == Restrict(payload, UserSerializer_fields)
    IN  {f \in UserSerializer_fields : ~partial /\ f \notin DOMAIN data}
        \cup {f \in {"email"} \cap DOMAIN data :
                 \/ data[f] = BlankEmail
                 \/ User_email_rows(users, data[f]) \ {instance} # {}}
        \cup {f \in {"password"} \cap DOMAIN data : data[f] = ""}

\* The fields of a payload that UserSerializer refuses.  A model
\* serializer derives a uniqueness validator from User.email, which looks
\* the submitted value up as it is and leaves the instance being updated
\* out; a full write requires every field.
UserSerializer_errors(payload, instance, partial) ==
    LET data == Restrict(payload, UserSerializer_fields)
    IN  {f \in UserSerializer_fields : ~partial /\ f \notin DOMAIN data}
        \cup {f \in {"email"} \cap DOMAIN data :
                 \/ data[f] = BlankEmail
                 \/ User_email_rows(users, data[f]) \ {instance} # {}}
        \cup {f \in {"password"} \cap DOMAIN data : Len(data[f]) < MinPasswordLength}

\* UserSerializer(instance).data: the password is write-only.
UserSerializer_data(row) == [email |-> row.email, name |-> row.name]

\* serializer.errors: one entry per refused field.
Errors(fields) == [f \in fields |-> "invalid"]

\* UserSerializer.update: the password is taken out of validated_data and
\* set through set_password, the other fields through ModelSerializer.update.
UserSerializer_update(row, validated_data) ==
    LET rest == Restrict(validated_data, {"email", "name"})
        updated == ModelSerializer_update(row, rest)
    IN  IF "password" \in DOMAIN validated_data
        THEN [updated EXCEPT !.password = make_password(validated_data["password"])]
        ELSE updated

\* django.contrib.auth.authenticate(username=email, password=password):
\* the active user stored under exactly that email whose credential
\* verifies, if any.
authenticate(email, password) ==
    {u \in DOMAIN users :
        /\ users[u].email = email
        /\ check_password(password, users[u].password)
        /\ users[u].is_active}

\* AuthTokenSerializer (user/serializers.py is not among the sources): the
\* fields that are missing or blank, else a non-field error when the pair
\* does not authenticate.
AuthTokenSerializer_errors(payload) ==
    LET blank == {f \in {"email", "password"} :
                     \/ f \notin DOMAIN payload
                     \/ payload[f] = (IF f = "email" THEN BlankEmail ELSE "")}
    IN  IF blank # {} THEN blank
        ELSE IF authenticate(payload["email"], payload["password"]) = {}
        THEN {"non_field_errors"}
        ELSE {}

\* ------------------------------------------------------------- user views
\* POST /user/create/ (CreateUserView, open to everyone): the serializer
\* validates, then its create calls create_user.  An IntegrityError of the
\* insert is not handled and answers 500.
CreateUser(payload) ==
    LET errors == UserSerializer_errors(payload, Anonymous, FALSE)
        r == create_user(users, seq.user, payload["email"], payload["password"],
                         payload["name"])
    IN  /\ UNCHANGED <<recipes, tags, ingredients, inflight, tokens, storage, command>>
        /\ IF errors # {}
           THEN /\ UNCHANGED <<users, seq>>
                /\ Respond("user_create", Anonymous, 0, payload, 400, Errors(errors))
           ELSE /\ seq.user <= Len(UserIds)
                /\ users' = r.users
                /\ seq' = [seq EXCEPT !.user = r.next]
                /\ IF r.raised # ""
                   THEN Respond("user_create", Anonymous, 0, payload, 500, EmptyDict)
                   ELSE Respond("user_create", Anonymous, 0, payload, 201,
                                UserSerializer_data(r.users[r.id]))

\* Token.generate_key: a random key, here one per user.
Token_generate_key(u) == IF u = "u1" THEN "k1" ELSE "k2"

\* Mutant: a token is issued to the user of the submitted email, whatever
\* the password.
CreateToken_unchecked(payload) ==
    LET found == IF "email" \in DOMAIN payload
                 THEN User_email_rows(users, payload["email"]) ELSE {}
    IN  /\ UNCHANGED <<recipes, tags, ingredients, seq, inflight, users, storage, command>>
        /\ IF found = {}
           THEN /\ UNCHANGED tokens
                /\ Respond("user_token", Anonymous, 0, payload, 400,
                           Errors({"non_field_errors"}))
           ELSE LET u == CHOOSE x \in found : TRUE
                IN  /\ tokens' = Insert(tokens, Token_generate_key(u), u)
                    /\ Respond("user_token", Anonymous, 0, payload, 200,
                               [token |-> Token_generate_key(u)])

\* POST /user/token/ (CreateTokenView, ObtainAuthToken.post): the
\* serializer validates the pair, then the user's token is got or created
\* and returned.
CreateToken(payload) ==
    LET errors == AuthTokenSerializer_errors(payload)
    IN  /\ UNCHANGED <<recipes, tags, ingredients, seq, inflight, users, storage, command>>
        /\ IF errors # {}
           THEN /\ UNCHANGED tokens
                /\ Respond("user_token", Anonymous, 0, payload, 400, Errors(errors))
           ELSE LET u == CHOOSE x \in authenticate(payload["email"], payload["password"]) : TRUE
                    key == IF \E k \in DOMAIN tokens : tokens[k] = u
                           THEN CHOOSE k \in DOMAIN tokens : tokens[k] = u
                           ELSE Token_generate_key(u)
                IN  /\ tokens' = Insert(tokens, key, u)
                    /\ Respond("user_token", Anonymous, 0, payload, 200, [token |-> key])

\* The Authorization header of a request: no token, or a key.
NoToken == "none"

\* TokenAuthentication.authenticate: request.user for the token a request
\* carries.  A key that is unknown, or of an inactive user, fails the
\* authentication; both leave the request without a user.
TokenAuthentication_authenticate(token) ==
    IF token # NoToken /\ token \in DOMAIN tokens /\ tokens[token] \in DOMAIN users
       /\ users[tokens[token]].is_active
    THEN tokens[token]
    ELSE Anonymous

\* Mutant: permission_classes lets every request through.
AllowAny(u) == TRUE

\* permissions.IsAuthenticated.has_permission
IsAuthenticated(u) == u # Anonymous

\* APIView.initial refuses the request: 401, before any handler runs.  The
\* request is recorded with the token it carried.
NotAuthenticated(op, token, id, payload) ==
    /\ Quiet
    /\ request' = [op |-> op, user |-> Anonymous, id |-> id, payload |-> payload,
                   token |-> token]
    /\ response' = [status |-> 401, data |-> EmptyDict]

\* Mutant: the profile is looked up by position, not by request.user.
ManageUserView_get_object_first(u) == UserIds[1]

\* ManageUserView.get_object: the authenticated user.
ManageUserView_get_object(u) == u

\* /user/me/ (ManageUserView, a RetrieveUpdateAPIView): authentication and
\* permission first, then GET retrieves, PUT and PATCH update, and any
\* other method is answered 405.
ManageUser(token, method, payload) ==
    LET caller == TokenAuthentication_authenticate(token)
        op == "me_" \o method
        u == ManageUserView_get_object(caller)
        partial == method = "PATCH"
        errors == UserSerializer_errors(payload, u, partial)
        data == Restrict(payload, UserSerializer_fields)
    IN  IF ~IsAuthenticated(caller)
        THEN NotAuthenticated(op, token, 0, payload)
        ELSE IF method \notin {"GET", "PUT", "PATCH"}
        THEN Quiet /\ Respond(op, caller, 0, payload, 405, EmptyDict)
        ELSE IF u \notin DOMAIN users
        THEN Quiet /\ Respond(op, caller, 0, payload, 500, EmptyDict)
        ELSE IF method = "GET"
        THEN Quiet /\ Respond(op, caller, 0, payload, 200, UserSerializer_data(users[u]))
        ELSE IF errors # {}
        THEN Quiet /\ Respond(op, caller, 0, payload, 400, Errors(errors))
        ELSE LET s == User_save(users, u, UserSerializer_update(users[u], data))
             IN  /\ UNCHANGED <<recipes, tags, ingredients, seq, inflight, tokens, storage, command>>
                 /\ users' = s.table
                 /\ IF s.raised
                    THEN Respond(op, caller, 0, payload, 500, EmptyDict)
                    ELSE Respond(op, caller, 0, payload, 200,
                                 UserSerializer_data(s.table[u]))

\* RecipeViewSet behind its authentication_classes and permission_classes.
RecipeViewSet_dispatch(token, action, id, payload) ==
    LET u == TokenAuthentication_authenticate(token)
    IN  IF ~IsAuthenticated(u)
        THEN NotAuthenticated("recipe_" \o action, token, id, payload)
        ELSE CASE action = "list" -> RecipeList(u, payload)
               [] action = "retrieve" -> RecipeRetrieve(u, id)
               [] action = "create" -> seq.recipe <= MaxAccessRecipes /\ RecipeCreate(u, payload)
               [] action = "update" -> RecipeUpdate(u, id, payload, FALSE)
               [] action = "partial_update" -> RecipeUpdate(u, id, payload, TRUE)
               [] action = "destroy" -> RecipeDestroy(u, id)
               [] action = "upload_image" -> upload_image(u, id, payload["image"])

\* TagViewSet and IngredientViewSet behind the authentication_classes and
\* permission_classes of BaseRecipeAttrViewSet.
BaseRecipeAttrViewSet_dispatch(kind, token, action, id, payload) ==
    LET u == TokenAuthentication_authenticate(token)
    IN  IF ~IsAuthenticated(u)
        THEN NotAuthenticated(Op(kind, action), token, id, payload)
        ELSE CASE action = "list" -> AttrList(kind, u, payload)
               [] action = "retrieve" -> AttrRetrieve(kind, u, id)
               [] action = "update" -> AttrUpdate(kind, u, id, payload, FALSE)
               [] action = "partial_update" -> AttrUpdate(kind, u, id, payload, TRUE)
               [] action = "destroy" -> AttrDestroy(kind, u, id)
               [] action = "create" -> AttrCreate(kind, u, payload)

\* SpecUser: registration, token issuance and the profile endpoint, with
\* emails that differ in the case of the domain only, passwords on both
\* sides of the minimum length, and requests with and without a token.
UserEmails == {[local |-> "a", domain |-> "x"], [local |-> "a", domain |-> "X"],
               [local |-> "b", domain |-> "x"]}

UserPasswords == {"pw", "pass1"}

UserCreatePayloads ==
    Opt(Opt(Opt({EmptyDict}, "email", UserEmails), "password", UserPasswords),
        "name", {"n1"})

TokenPayloads ==
    Opt({[email |-> e] : e \in UserEmails}, "password", {"", "pass1", "pass22"})

ProfilePayloads ==
    Opt(Opt(Opt({EmptyDict}, "name", {"n2"}), "password", {"pw", "pass22"}),
        "email", {[local |-> "a", domain |-> "X"]})

RequestTokens == {NoToken, "k1", "k2", "k0"}

NextUser ==
    \/ \E p \in UserCreatePayloads : CreateUser(p)
    \/ \E p \in TokenPayloads : CreateToken(p)
    \/ \E t \in RequestTokens, m \in {"GET", "POST"} : ManageUser(t, m, EmptyDict)
    \/ \E t \in RequestTokens, m \in {"PATCH", "PUT"}, p \in ProfilePayloads :
          ManageUser(t, m, p)

SpecUser == Init /\ [][NextUser]_vars

\* SpecAuth: every endpoint of the recipe, tag, ingredient and profile
\* views, requested with no token, with an unknown key and with the key of
\* a registered user.
AuthUserPayloads == {[email |-> [local |-> "a", domain |-> "x"], password |-> "pass1",
                      name |-> "n1"]}

AuthTokenPayloads ==
    {[email |-> [local |-> "a", domain |-> "x"], password |-> w] : w \in {"pass1", "pass22"}}

AuthTokens == {NoToken, "k1", "k0"}

AuthRecipePayloads == Opt({[title |-> "t1"]}, "tags", {<<"a">>})

AuthImagePayloads == {[image |-> "image"]}

AuthAttrPayloads == {[name |-> "a"]}

NextAuth ==
    \/ \E p \in AuthUserPayloads : CreateUser(p)
    \/ \E p \in AuthTokenPayloads : CreateToken(p)
    \/ \E t \in AuthTokens, m \in {"GET", "POST"} : ManageUser(t, m, EmptyDict)
    \/ \E t \in AuthTokens : ManageUser(t, "PATCH", [name |-> "n2"])
    \/ \E t \in AuthTokens : RecipeViewSet_dispatch(t, "list", 0, EmptyDict)
    \/ \E t \in AuthTokens, p \in AuthRecipePayloads :
          RecipeViewSet_dispatch(t, "create", 0, p)
    \/ \E t \in AuthTokens, id \in AccessRecipeIds,
          a \in {"retrieve", "destroy"} : RecipeViewSet_dispatch(t, a, id, EmptyDict)
    \/ \E t \in AuthTokens, id \in AccessRecipeIds, p \in AuthRecipePayloads,
          a \in {"update", "partial_update"} : RecipeViewSet_dispatch(t, a, id, p)
    \/ \E t \in AuthTokens, id \in AccessRecipeIds, p \in AuthImagePayloads :
          RecipeViewSet_dispatch(t, "upload_image", id, p)
    \/ \E k \in Kinds, t \in AuthTokens :
          BaseRecipeAttrViewSet_dispatch(k, t, "list", 0, EmptyDict)
    \/ \E k \in Kinds : \E t \in AuthTokens, id \in AccessAttrIds(k),
          a \in {"retrieve", "destroy"} :
          BaseRecipeAttrViewSet_dispatch(k, t, a, id, EmptyDict)
    \/ \E k \in Kinds : \E t \in AuthTokens, id \in AccessAttrIds(k), p \in AuthAttrPayloads,
          a \in {"update", "partial_update"} :
          BaseRecipeAttrViewSet_dispatch(k, t, a, id, p)
    \/ \E k \in Kinds, t \in AuthTokens, p \in AuthAttrPayloads :
          BaseRecipeAttrViewSet_dispatch(k, t, "create", 0, p)
    \/ \E u \in DOMAIN users :
          seq.ingredient <= MaxAccessIngredients /\ Ingredient_objects_create(u, "a")
    \/ \E r \in AccessRecipeIds, i \in AccessAttrIds("ingredient") : recipe_ingredients_add(r, i)

SpecAuth == Init /\ [][NextAuth]_vars

\* ------------------------------------------------------------ user manager
\* A call of a manager method from Python (tests, the createsuperuser
\* command): the request records the call, the response what it raised and
\* the id of the user it returned.
ManagerCall(op, payload, r) ==
    /\ payload.email \in FalsyEmails \/ seq.user <= Len(UserIds)
    /\ users' = r.users
    /\ seq' = [seq EXCEPT !.user = r.next]
    /\ UNCHANGED <<recipes, tags, ingredients, inflight, tokens, storage, command>>
    /\ Respond(op, Anonymous, 0, payload, 0, [raised |-> r.raised, id |-> r.id])

\* get_user_model().objects.create_user(email=..., password=..., name=...)
UserManager_create_user(email, password, name) ==
    ManagerCall("orm_create_user",
                [email |-> email, password |-> password, name |-> name],
                create_user(users, seq.user, email, password, name))

\* get_user_model().objects.create_superuser(email=..., password=...)
UserManager_create_superuser(email, password) ==
    ManagerCall("orm_create_superuser",
                [email |-> email, password |-> password],
                create_superuser(users, seq.user, email, password))

\* SpecManager: calls of the two manager methods with emails of either
\* case, with '' and with None.
ManagerEmails == UserEmails \cup FalsyEmails

NextManager ==
    \/ \E e \in ManagerEmails, pw \in UserPasswords, n \in {"", "n1"} :
          UserManager_create_user(e, pw, n)
    \/ \E e \in ManagerEmails, pw \in UserPasswords :
          UserManager_create_superuser(e, pw)

SpecManager == Init /\ [][NextManager]_vars

\* ------------------------------------------------------------ wait_for_db
\* The management command wait_for_db (core/management/commands/wait_for_db.py
\* is not among the sources; the tests of core/tests/test_commands.py patch
\* its check method and time.sleep).  A run calls check on the default
\* database until a call returns.

\* The errors of a check that the command waits on: psycopg2's and Django's
\* OperationalError.
OperationalErrors == {"Psycopg2OpError", "OperationalError"}

\* What one call of the patched check does: raise one of the errors, or
\* return True.
CheckOutcomes == OperationalErrors \cup {"True"}

\* call_command('wait_for_db'): a run starts with no check made.
call_command_wait_for_db ==
    /\ command.pc \in {"idle", "done"}
    /\ command' = [pc |-> "check", outcomes |-> << >>, databases |-> << >>]
    /\ UNCHANGED <<recipes, tags, ingredients, seq, request, response, inflight,
                   users, tokens, storage>>

\* Mutant: the command checks once and returns, whatever the check did.
wait_for_db_check_once(outcome) ==
    /\ command.pc = "check"
    /\ Len(command.outcomes) < MaxChecks
    /\ command' = [pc |-> "done",
                   outcomes |-> Append(command.outcomes, outcome),
                   databases |-> <<"default">>]
    /\ UNCHANGED <<recipes, tags, ingredients, seq, request, response, inflight,
                   users, tokens, storage>>

\* One turn of the loop of Command.handle: self.check(databases=['default']);
\* an OperationalError is caught and the command goes to sleep, a return
\* ends the loop.
wait_for_db_check(outcome) ==
    /\ command.pc = "check"
    /\ Len(command.outcomes) < MaxChecks
    /\ command' = [pc |-> IF outcome \in OperationalErrors THEN "sleep" ELSE "done",
                   outcomes |-> Append(command.outcomes, outcome),
                   databases |-> <<"default">>]
    /\ UNCHANGED <<recipes, tags, ingredients, seq, request, response, inflight,
                   users, tokens, storage>>

\* time.sleep(1) returns and the loop turns again.
wait_for_db_sleep ==
    /\ command.pc = "sleep"
    /\ command' = [command EXCEPT !.pc = "check"]
    /\ UNCHANGED <<recipes, tags, ingredients, seq, request, response, inflight,
                   users, tokens, storage>>

\* SpecWait: runs of wait_for_db against a database whose every check may
\* raise either error or succeed.
NextWait ==
    \/ call_command_wait_for_db
    \/ \E outcome \in CheckOutcomes : wait_for_db_check(outcome)
    \/ wait_for_db_sleep

SpecWait == Init /\ [][NextWait]_vars

\* ------------------------------------------------------------------ claims
RecipeDetailOps ==
    {"recipe_retrieve", "recipe_update", "recipe_partial_update", "recipe_destroy",
     "recipe_upload_image"}

RecipeOps == RecipeDetailOps \cup {"recipe_list", "recipe_create"}

AttrDetailOps(kind) ==
    {Op(kind, "retrieve"), Op(kind, "update"), Op(kind, "partial_update"),
     Op(kind, "destroy")}

AttrOps(kind) == AttrDetailOps(kind) \cup {Op(kind, "list")}

\* The rows of a table that user u owns.
OwnedBy(table, u) == {id \in DOMAIN table : table[id].user = u}

\* The step answers 404 and writes no table.
NotFoundStep ==
    /\ response'.status = 404
    /\ UNCHANGED <<recipes, tags, ingredients>>

C1_Step ==
    LET op == request'.op
        u == request'.user
        id == request'.id
    IN  /\ (op \in RecipeDetailOps /\ id \in DOMAIN recipes /\ recipes[id].user # u)
              => NotFoundStep
        /\ (op \in AttrDetailOps("tag") /\ id \in DOMAIN tags /\ tags[id].user # u)
              => NotFoundStep
        /\ (op \in AttrDetailOps("ingredient") /\ id \in DOMAIN ingredients
               /\ ingredients[id].user # u)
              => NotFoundStep
        /\ op \in RecipeOps
              => Range(response'.data) \subseteq OwnedBy(recipes', u)
        /\ op \in AttrOps("tag")
              => Range(response'.data) \subseteq OwnedBy(tags', u)
        /\ op \in AttrOps("ingredient")
              => Range(response'.data) \subseteq OwnedBy(ingredients', u)

\* C1: a request of user U1 that targets, by id, a recipe, tag or
\* ingredient of another user (retrieve, update, partial update, delete,
\* image upload) answers 404 and changes no row and no association, and
\* every list or detail response holds rows of the requester only.
C1_OwnerScoped == [][C1_Step]_vars

\* C1 witness: a PATCH with a new title was sent to a recipe of another
\* user that carries a tag, an ingredient and an image, and got 404.
C1_Witness ==
    /\ request.op = "recipe_partial_update"
    /\ response.status = 404
    /\ request.id \in DOMAIN recipes
    /\ recipes[request.id].user # request.user
    /\ recipes[request.id].tags # {}
    /\ recipes[request.id].ingredients # {}
    /\ recipes[request.id].image # NoImage
    /\ "title" \in DOMAIN request.payload
    /\ request.payload["title"] # recipes[request.id].title

\* The request wrote through the API (not a fixture).
ApiOp(op) == op \in RecipeOps \cup AttrOps("tag") \cup AttrOps("ingredient")

C8_Step ==
    LET op == request'.op
        u == request'.user
        p == request'.payload
    IN  /\ \A id \in DOMAIN recipes \cap DOMAIN recipes' :
              recipes'[id].user = recipes[id].user
        /\ \A id \in DOMAIN tags \cap DOMAIN tags' : tags'[id].user = tags[id].user
        /\ \A id \in DOMAIN ingredients \cap DOMAIN ingredients' :
              ingredients'[id].user = ingredients[id].user
        /\ \A id \in DOMAIN recipes' \ DOMAIN recipes : recipes'[id].user = u
        /\ \A id \in DOMAIN tags' \ DOMAIN tags : tags'[id].user = u
        /\ (ApiOp(op) /\ "user" \in DOMAIN p /\ response'.status >= 400)
              => \/ response'.status = 404
                 \/ /\ response'.status = 400
                    /\ \/ op \in {"recipe_create", "recipe_update"} /\ "title" \notin DOMAIN p
                       \/ op \in {"tag_update", "ingredient_update"} /\ "name" \notin DOMAIN p

RowsNamed(table, u, n) == {id \in DOMAIN table : table[id] = [user |-> u, name |-> n]}

\* The rows of a table that user u owns under one of the names.
RowsNamedIn(table, u, names) ==
    {id \in DOMAIN table : table[id].user = u /\ table[id].name \in names}

C2_Step ==
    LET u == request'.user
        p == request'.payload
        id == request'.id
        names == Range(p["tags"])
        new == {n \in names : RowsNamed(tags, u, n) = {}}
    IN  (request'.op = "recipe_create" /\ "tags" \in DOMAIN p /\ "title" \in DOMAIN p)
        =>  /\ \A n \in Names :
                  RowsNamed(tags, u, n) # {}
                      => RowsNamed(tags', u, n) = RowsNamed(tags, u, n)
            /\ \A n \in Names :
                  RowsNamed(tags, u, n) = {}
                      => Cardinality(RowsNamed(tags', u, n)) <= 1
            /\ response'.status = 201
                  => /\ Cardinality(OwnedBy(tags', u))
                            = Cardinality(OwnedBy(tags, u)) + Cardinality(new)
                     /\ recipes'[id].tags = RowsNamedIn(tags', u, names)
            /\ response'.status # 201
                  => \E n \in names : Cardinality(RowsNamed(tags, u, n)) > 1

ValidWrite ==
    LET op == request'.op
        p == request'.payload
    IN  \/ op = "recipe_create" /\ "title" \in DOMAIN p
        \/ /\ op = "recipe_partial_update"
           /\ request'.id \in OwnedBy(recipes, request'.user)
        \/ /\ op = "recipe_update" /\ "title" \in DOMAIN p
           /\ request'.id \in OwnedBy(recipes, request'.user)

ValidUpdate == ValidWrite /\ request'.op # "recipe_create"

C3_Step ==
    LET p == request'.payload
        id == request'.id
    IN  (ValidUpdate /\ request'.op = "recipe_partial_update")
        =>  /\ ("tags" \in DOMAIN p /\ p["tags"] = << >>)
                  => response'.status = 200 /\ recipes'[id].tags = {}
            /\ "tags" \notin DOMAIN p
                  => recipes'[id].tags = recipes[id].tags
            /\ ("ingredients" \in DOMAIN p /\ p["ingredients"] = << >>)
                  => response'.status = 200 /\ recipes'[id].ingredients = {}
            /\ "ingredients" \notin DOMAIN p
                  => recipes'[id].ingredients = recipes[id].ingredients

\* C3: a PATCH of a recipe with tags: [] answers 200 and leaves the
\* recipe without tags, a PATCH without the tags key leaves its tags as
\* they were; the same for ingredients, each key on its own.
C3_ClearOrKeep == [][C3_Step]_vars

C4_Step ==
    LET u == request'.user
        p == request'.payload
        id == request'.id
        names == Range(p["tags"])
    IN  (ValidUpdate /\ "tags" \in DOMAIN p /\ p["tags"] # << >>)
        =>  /\ response'.status = 200
            /\ \A n \in names : RowsNamed(tags', u, n) # {}
            /\ recipes'[id].tags = RowsNamedIn(tags', u, names)
            /\ \A t \in DOMAIN tags : t \in DOMAIN tags' /\ tags'[t] = tags[t]

\* C4: a PUT or PATCH of a recipe with a non-empty tags list answers 200
\* and leaves the recipe with exactly the caller's tags of the listed
\* names (reused or created for the caller), and deletes no Tag row.
C4_ReplaceTags == [][C4_Step]_vars

C5_Step ==
    LET u == request'.user
        p == request'.payload
        id == request'.id
        names == Range(p["ingredients"])
    IN  (request'.op = "recipe_create" /\ "title" \in DOMAIN p /\ "ingredients" \in DOMAIN p)
        =>  /\ response'.status = 201
            /\ \A n \in names :
                  Cardinality(RowsNamed(ingredients', u, n))
                      = IF RowsNamed(ingredients, u, n) = {}
                        THEN 1 ELSE Cardinality(RowsNamed(ingredients, u, n))
            /\ recipes'[id].ingredients = RowsNamedIn(ingredients', u, names)

\* C5: a recipe create with an embedded ingredients list answers 201,
\* creates one caller-owned Ingredient row per listed name the caller did
\* not own, reuses the rows the caller owns, and attaches exactly the
\* caller's ingredients of the listed names.
C5_IngredientsReconciled == [][C5_Step]_vars

\* The caller's recipes associated with at least one id of S.
RecipesWith(u, field, S) ==
    {r \in OwnedBy(recipes, u) : recipes[r][field] \cap S # {}}

NoRepeats(s) == Len(s) = Cardinality(Range(s))

\* C6: the recipe list under a tags (ingredients) parameter S holds
\* exactly the caller's recipes associated with at least one id of S, each
\* once.
C6_FilterIsUnion ==
    (request.op = "recipe_list" /\ response.status = 200)
    =>  /\ NoRepeats(response.data)
        /\ DOMAIN request.payload = {"tags"}
              => Range(response.data)
                     = RecipesWith(request.user, "tags", request.payload["tags"])
        /\ DOMAIN request.payload = {"ingredients"}
              => Range(response.data)
                     = RecipesWith(request.user, "ingredients",
                                   request.payload["ingredients"])

\* The caller's rows of a kind that some recipe is associated with.
Assigned(kind, u) ==
    {id \in OwnedBy(Table(kind), u) :
        \E r \in DOMAIN recipes :
            id \in (IF kind = "tag" THEN recipes[r].tags ELSE recipes[r].ingredients)}

\* C7: the tag (ingredient) list under assigned_only=1 holds exactly the
\* caller's tags (ingredients) attached to at least one recipe, each once.
C7_AssignedOnly ==
    \A kind \in Kinds :
        (/\ request.op = Op(kind, "list")
         /\ "assigned_only" \in DOMAIN request.payload
         /\ request.payload["assigned_only"] = "1")
        =>  /\ NoRepeats(response.data)
            /\ Range(response.data) = Assigned(kind, request.user)

C9_Step ==
    LET u == request'.user
        p == request'.payload
        id == request'.id
        names == Range(p["tags"])
    IN  (ValidWrite /\ "tags" \in DOMAIN p)
        =>  \A n \in names :
                (/\ RowsNamed(tags, u, n) = {}
                 /\ \E v \in Users \ {u} : RowsNamed(tags, v, n) # {})
                =>  /\ \A t \in DOMAIN tags :
                          tags[t].user # u
                              => /\ t \in DOMAIN tags' /\ tags'[t] = tags[t]
                                 /\ t \notin recipes'[id].tags
                    /\ \E t \in DOMAIN tags' \ DOMAIN tags :
                          tags'[t] = Tag(u, n) /\ t \in recipes'[id].tags

\* C9: a recipe write (create, PUT, PATCH) by U that embeds a tag name
\* only another user owns leaves the other user's tags as they were and
\* unattached, and creates a Tag row of that name owned by U and attaches
\* it to the recipe.
C9_ReuseScopedToCaller == [][C9_Step]_vars

\* C10: once two concurrent recipe creates by one user are both finished,
\* each name both embedded has exactly one Tag row of that user, and both
\* recipes are associated with it.
C10_OneRowUnderRace ==
    \A p, q \in Processes :
        (/\ p # q
         /\ inflight[p].pc = "done" /\ inflight[q].pc = "done"
         /\ inflight[p].user = inflight[q].user)
        =>  \A n \in Range(inflight[p].names) \cap Range(inflight[q].names) :
                \E t \in DOMAIN tags :
                    /\ RowsNamed(tags, inflight[p].user, n) = {t}
                    /\ t \in recipes[inflight[p].recipe].tags
                    /\ t \in recipes[inflight[q].recipe].tags

\* The operations of the views that require authentication.
ProtectedOps ==
    RecipeOps \cup AttrOps("tag") \cup AttrOps("ingredient")
    \cup {"tag_create", "ingredient_create"}
    \cup {"me_GET", "me_POST", "me_PATCH", "me_PUT"}

\* The user holds a token.
HoldsToken(u) == \E k \in DOMAIN tokens : tokens[k] = u

C11_Step ==
    request'.op \in ProtectedOps
    =>  /\ "token" \in DOMAIN request'
              => /\ request'.token \notin DOMAIN tokens
                 /\ response'.status = 401
        /\ response'.status = 401
              => UNCHANGED <<users, tokens, recipes, tags, ingredients>>
        /\ response'.status # 401
              => request'.user \in DOMAIN users /\ HoldsToken(request'.user)

\* C11: a request to a recipe, tag, ingredient or profile endpoint that
\* carries no token or an unknown key is answered 401 and leaves the user,
\* recipe, tag and ingredient stores as they were; a request answered
\* otherwise was made by a registered user who holds a token.
C11_AuthRequired == [][C11_Step]_vars

\* C11 witness: a DELETE of an existing recipe that carries an attached
\* tag, sent with an unknown key while a user holds a token, got 401.
C11_Witness ==
    /\ request.op = "recipe_destroy"
    /\ "token" \in DOMAIN request
    /\ request.token = "k0"
    /\ response.status = 401
    /\ request.id \in DOMAIN recipes
    /\ recipes[request.id].tags # {}
    /\ tokens # EmptyDict

\* The sequence of ids is strictly descending.
DescendingIds(s) == \A i, j \in DOMAIN s : i < j => s[i] > s[j]

\* The rows of the table come by name, descending.
DescendingNames(table, s) ==
    \A i, j \in DOMAIN s : i < j => NameOrd(table[s[i]].name) >= NameOrd(table[s[j]].name)

C12_Step ==
    LET op == request'.op
        u == request'.user
        data == response'.data
    IN  /\ \A id \in DOMAIN recipes : id < seq.recipe
        /\ seq'.recipe >= seq.recipe
        /\ \A id \in DOMAIN recipes' \ DOMAIN recipes : id >= seq.recipe /\ id < seq'.recipe
        /\ op = "recipe_list"
              => /\ response'.status = 200
                 /\ Range(data) = OwnedBy(recipes', u)
                 /\ DescendingIds(data)
        /\ op = "tag_list"
              => /\ response'.status = 200
                 /\ Range(data) = OwnedBy(tags', u) /\ NoRepeats(data)
                 /\ DescendingNames(tags', data)
        /\ op = "ingredient_list"
              => /\ response'.status = 200
                 /\ Range(data) = OwnedBy(ingredients', u) /\ NoRepeats(data)
                 /\ DescendingNames(ingredients', data)

\* C12: a recipe list holds exactly the caller's recipes by id,
\* descending; a recipe that is created gets an id greater than every id
\* handed out before it, deleted ones included, so that order is newest
\* first; a tag or ingredient list holds exactly the caller's rows by
\* name, descending.
C12_ListOrder == [][C12_Step]_vars

\* C12 witness: a recipe list answered with recipes 3 and 2, in that
\* order, after recipe 1 was deleted, for a caller whose two tags come in
\* another order by name than by id.
C12_Witness ==
    /\ request.op = "recipe_list"
    /\ response.data = <<3, 2>>
    /\ 1 \notin DOMAIN recipes
    /\ \E t1, t2 \in OwnedBy(tags, request.user) :
          t1 < t2 /\ NameOrd(tags[t1].name) > NameOrd(tags[t2].name)

C13_Step ==
    LET p == request'.payload
        id == request'.id
    IN  (/\ request'.op = "recipe_upload_image"
         /\ id \in OwnedBy(recipes, request'.user)
         /\ ~RecipeImageSerializer_is_valid(p["image"]))
        =>  /\ response'.status = 400
            /\ recipes' = recipes
            /\ UNCHANGED <<tags, ingredients>>

\* C13: an upload to one of the caller's recipes whose image field does
\* not hold a well-formed image is answered 400 and leaves the recipe as
\* it was: its image reference, its other fields and its associations.
C13_BadImageRejected == [][C13_Step]_vars

\* C13 witness: non-image bytes were uploaded to a recipe that already had
\* an image, a tag and an ingredient, and got 400.
C13_Witness ==
    /\ request.op = "recipe_upload_image"
    /\ request.payload["image"] = "text"
    /\ response.status = 400
    /\ recipes[request.id].image = StoredImage
    /\ recipes[request.id].tags # {}
    /\ recipes[request.id].ingredients # {}

\* The string x is the end of the string p.
IsSuffix(x, p) == Len(x) <= Len(p) /\ SubSeq(p, Len(p) - Len(x) + 1, Len(p)) = x

\* The number of positions of p that hold c.
Count(p, c) == Cardinality({k \in DOMAIN p : p[k] = c})

\* C14: the path of every upload is uploads/recipe/<uuid><extension>,
\* where the extension is a suffix of the uploaded filename that holds no
\* separator and at most one dot, its first character; so the path has
\* the two separators of its prefix only, whatever directories the
\* filename names, and nothing of the filename before its extension; and
\* two uploads never get the same path.
C14_ImagePath ==
    /\ \A i \in DOMAIN storage :
          LET f == storage[i].filename
              path == storage[i].path
              ext == SubSeq(path, 6, Len(path))
          IN  /\ Len(path) >= 5
              /\ SubSeq(path, 1, 5) = <<"uploads", "/", "recipe", "/", storage[i].uuid>>
              /\ IsSuffix(ext, f)
              /\ Count(ext, "/") = 0
              /\ ext # << >> => ext[1] = "." /\ Count(ext, ".") = 1
              /\ (ext = << >> /\ f # << >>)
                    => \/ Count(f, ".") = 0
                       \/ rfind(f, ".") < rfind(f, "/")
                       \/ \A k \in (rfind(f, "/") + 1)..rfind(f, ".") : f[k] = "."
    /\ \A i, j \in DOMAIN storage : i # j => storage[i].path # storage[j].path

\* C14 witness: the same filename, with a directory, a base name and an
\* extension, was uploaded twice.
C14_Witness ==
    /\ Len(storage) = 2
    /\ storage[1].filename = <<"/", "a", ".", "a">>
    /\ storage[2].filename = storage[1].filename
    /\ storage[1].path = <<"uploads", "/", "recipe", "/", storage[1].uuid, ".", "a">>

\* The users stored under the email.
UsersWithEmail(table, email) == {u \in DOMAIN table : table[u].email = email}

C15_Step ==
    LET p == request'.payload
    IN  (/\ request'.op = "user_create"
         /\ "password" \in DOMAIN p
         /\ Len(p["password"]) < MinPasswordLength)
        =>  /\ response'.status = 400
            /\ "password" \in DOMAIN response'.data
            /\ users' = users
            /\ "email" \in DOMAIN p
                  => UsersWithEmail(users', p["email"]) = UsersWithEmail(users, p["email"])

\* C15: a registration whose password is shorter than MinPasswordLength
\* is answered 400 with an error on the password field and creates no
\* user: the user store is as before, so no user with the submitted email
\* exists afterwards unless one existed already.
C15_ShortPasswordRejected == [][C15_Step]_vars

\* C15 witness: a registration with a two-character password and an email
\* and name that would otherwise be accepted got 400, and no user has the
\* email.
C15_Witness ==
    /\ request.op = "user_create"
    /\ response.status = 400
    /\ DOMAIN request.payload = {"email", "password", "name"}
    /\ request.payload["password"] = "pw"
    /\ DOMAIN response.data = {"password"}
    /\ UsersWithEmail(users, request.payload["email"]) = {}
    /\ users # EmptyDict

C16_Step ==
    LET p == request'.payload
    IN  /\ \A u, v \in DOMAIN users' : u # v => users'[u].email # users'[v].email
        /\ (/\ request'.op = "user_create"
            /\ "email" \in DOMAIN p
            /\ UsersWithEmail(users, p["email"]) # {})
           =>  /\ response'.status = 400
               /\ "email" \in DOMAIN response'.data
               /\ users' = users
        /\ (request'.op = "user_create" /\ response'.status # 201) => users' = users

\* C16: no two users are stored under the same email; a registration under
\* an email a user is stored under is answered 400 with an error on the
\* email field, and any registration that is not answered 201 leaves the
\* user store as it was.
C16_UniqueEmail == [][C16_Step]_vars

\* C16 witness: a registration that was complete and valid but for its
\* email, which a user has, got 400.
C16_Witness ==
    /\ request.op = "user_create"
    /\ response.status = 400
    /\ DOMAIN request.payload = {"email", "password", "name"}
    /\ request.payload["password"] = "pass1"
    /\ UsersWithEmail(users, request.payload["email"]) # {}
    /\ DOMAIN response.data = {"email"}

\* The raw passwords the requests submit.
RawPasswords == {"", "pw", "pass1", "pass22"}

\* The values of the response other than the email, which is no string.
ResponseValues == {response'.data[k] : k \in DOMAIN response'.data \ {"email"}}

UserOps == {"user_create", "me_GET", "me_POST", "me_PATCH", "me_PUT"}

C17_Step ==
    LET op == request'.op
        p == request'.payload
        u == request'.user
    IN  /\ \A x \in DOMAIN users' : users'[x].password \notin RawPasswords
        /\ (op = "user_create" /\ response'.status = 201)
              => \E x \in DOMAIN users' \ DOMAIN users :
                    /\ check_password(p["password"], users'[x].password)
                    /\ users'[x].password # p["password"]
        /\ (op \in {"me_PATCH", "me_PUT"} /\ response'.status = 200 /\ "password" \in DOMAIN p)
              => /\ check_password(p["password"], users'[u].password)
                 /\ users'[u].password # p["password"]
        /\ op \in UserOps
              => /\ response'.status \in {200, 201} => "password" \notin DOMAIN response'.data
                 /\ \A x \in DOMAIN users' : users'[x].password \notin ResponseValues
                 /\ "password" \in DOMAIN p => p["password"] \notin ResponseValues

\* C17: no stored credential is a raw password; after a registration
\* answered 201 or a profile update answered 200 that carried a password,
\* the stored credential verifies against the submitted password and
\* differs from it; a successful registration, profile retrieve or profile
\* update response has no password field, and no response of these
\* endpoints carries the submitted password or a stored credential.
C17_PasswordHashed == [][C17_Step]_vars

\* C17 witness: a profile update with a new password was answered 200.
C17_Witness ==
    /\ request.op = "me_PATCH"
    /\ response.status = 200
    /\ "password" \in DOMAIN request.payload
    /\ request.payload["password"] = "pass22"
    /\ check_password("pass22", users[request.user].password)
    /\ DOMAIN response.data = {"email", "name"}

\* The users whom the submitted pair authenticates.
Matching(p) ==
    IF {"email", "password"} \subseteq DOMAIN p
    THEN {u \in DOMAIN users :
             users[u].email = p["email"] /\ check_password(p["password"], users[u].password)}
    ELSE {}

\* The one answer to a pair that does not authenticate.
BadCredentials == [status |-> 400, data |-> [non_field_errors |-> "invalid"]]

C18_Step ==
    LET p == request'.payload
        data == response'.data
    IN  request'.op = "user_token"
        =>  /\ Matching(p) # {}
                  => /\ response'.status = 200
                     /\ "token" \in DOMAIN data
                     /\ data["token"] \in DOMAIN tokens'
                     /\ tokens'[data["token"]] \in Matching(p)
            /\ Matching(p) = {}
                  => /\ response'.status = 400
                     /\ "token" \notin DOMAIN data
                     /\ tokens' = tokens
            /\ (Matching(p) = {} /\ "password" \in DOMAIN p /\ p["password"] # "")
                  => response' = BadCredentials
            /\ users' = users

\* C18: a token request is answered 200 with a token of the matching user
\* exactly when the submitted email and password are those of a stored
\* user; otherwise it is answered 400 without a token and no token is
\* stored, and the answer to a non-blank password that does not match is
\* one fixed response, whether or not a user has the email.
C18_TokenIssuance == [][C18_Step]_vars

\* C18 witness: a wrong password for the email of a user who holds a token
\* got the fixed 400 answer.
C18_Witness ==
    /\ request.op = "user_token"
    /\ response = BadCredentials
    /\ \E u \in UsersWithEmail(users, request.payload["email"]) : HoldsToken(u)
    /\ request.payload["password"] = "pass22"

C19_Step ==
    LET op == request'.op
        p == request'.payload
        u == request'.user
        ok == response'.status = 200
    IN  (op \in {"me_GET", "me_POST", "me_PATCH", "me_PUT"} /\ response'.status # 401)
        =>  /\ u \in DOMAIN users
            /\ DOMAIN users' = DOMAIN users
            /\ \A v \in DOMAIN users \ {u} : users'[v] = users[v]
            /\ ~ok => users' = users
            /\ op = "me_GET"
                  => /\ ok /\ users' = users
                     /\ response'.data = [email |-> users[u].email, name |-> users[u].name]
            /\ op = "me_POST" => response'.status = 405
            /\ (op = "me_PATCH" /\ DOMAIN p \subseteq {"name", "password"}
                /\ ("password" \in DOMAIN p => Len(p["password"]) >= MinPasswordLength))
                  => /\ ok
                     /\ users'[u].email = users[u].email
                     /\ users'[u].name = IF "name" \in DOMAIN p THEN p["name"] ELSE users[u].name
                     /\ IF "password" \in DOMAIN p
                        THEN check_password(p["password"], users'[u].password)
                        ELSE users'[u].password = users[u].password
                     /\ response'.data = [email |-> users'[u].email, name |-> users'[u].name]

\* C19: an authenticated request to the profile endpoint leaves every
\* user but the caller as stored and writes nothing unless it is answered
\* 200; a GET returns the caller's email and name; a PATCH of name and
\* password (of the minimum length) is answered 200, sets the caller's
\* name and makes the new password verify; a POST is answered 405.
C19_OwnProfileOnly == [][C19_Step]_vars

\* C19 witness: the second user changed name and password with a PATCH
\* while the first user keeps another name.
C19_Witness ==
    /\ request.op = "me_PATCH"
    /\ request.user = "u2"
    /\ response.status = 200
    /\ request.payload = [name |-> "n2", password |-> "pass22"]
    /\ "u1" \in DOMAIN users
    /\ users["u1"].name = "n1"
    /\ users["u2"].name = "n2"

\* The recipe row without the association to row id of a kind.
Without(row, kind, id) ==
    IF kind = "tag"
    THEN [row EXCEPT !.tags = @ \ {id}]
    ELSE [row EXCEPT !.ingredients = @ \ {id}]

C20_Step ==
    LET op == request'.op
        u == request'.user
        id == request'.id
    IN  /\ (op = "recipe_destroy" /\ id \in OwnedBy(recipes, u))
              => /\ response'.status = 204
                 /\ DOMAIN recipes' = DOMAIN recipes \ {id}
                 /\ \A r \in DOMAIN recipes' : recipes'[r] = recipes[r]
                 /\ tags' = tags /\ ingredients' = ingredients
        /\ \A kind \in Kinds :
              (op = Op(kind, "destroy") /\ id \in OwnedBy(Table(kind), u))
              => /\ response'.status = 204
                 /\ DOMAIN recipes' = DOMAIN recipes
                 /\ \A r \in DOMAIN recipes : recipes'[r] = Without(recipes[r], kind, id)
                 /\ IF kind = "tag"
                    THEN /\ DOMAIN tags' = DOMAIN tags \ {id}
                         /\ \A t \in DOMAIN tags' : tags'[t] = tags[t]
                         /\ ingredients' = ingredients
                    ELSE /\ DOMAIN ingredients' = DOMAIN ingredients \ {id}
                         /\ \A i \in DOMAIN ingredients' : ingredients'[i] = ingredients[i]
                         /\ tags' = tags
        /\ (op \in {"recipe_destroy", "tag_destroy", "ingredient_destroy"}
            /\ response'.status # 204)
              => UNCHANGED <<recipes, tags, ingredients>>

\* C20: a DELETE of a recipe, tag or ingredient the caller owns is
\* answered 204 and removes that row and nothing else: every other recipe,
\* tag and ingredient of every user is still there with the same fields,
\* and the recipes keep their associations but for those to the deleted
\* row; a DELETE that is not answered 204 removes nothing.
C20_DeleteExactlyOne == [][C20_Step]_vars

\* C20 witness: a tag attached to a recipe was deleted while the other
\* user has a recipe and an ingredient, and the owner has another tag and
\* another recipe.
C20_Witness ==
    /\ request.op = "tag_destroy"
    /\ response.status = 204
    /\ request.id \notin DOMAIN tags
    /\ OwnedBy(tags, request.user) # {}
    /\ Cardinality(OwnedBy(recipes, request.user)) = 2
    /\ \E r \in OwnedBy(recipes, request.user) : recipes[r].tags # {}
    /\ \E v \in Users \ {request.user} :
          OwnedBy(recipes, v) # {} /\ OwnedBy(ingredients, v) # {}

\* The number of checks at the head of a run that raised.
RECURSIVE Failures(_)
Failures(outcomes) ==
    IF outcomes = << >> \/ Head(outcomes) \notin OperationalErrors
    THEN 0
    ELSE 1 + Failures(Tail(outcomes))

\* C21: wait_for_db checks the default database again as long as the check
\* raises an OperationalError of either kind and returns at the first check
\* that succeeds: a run whose first n checks fail is still running after
\* them, and a run that has returned made exactly n + 1 checks, the last
\* one the success (one check when the database is ready at once).
C21_WaitForDb ==
    LET n == Failures(command.outcomes)
        calls == Len(command.outcomes)
    IN  /\ command.pc = "done" => calls = n + 1 /\ command.outcomes[calls] = "True"
        /\ command.pc \in {"check", "sleep"} => calls = n
        /\ calls > 0 => command.databases = <<"default">>

\* The run of test_wait_for_db_delay: two errors of the driver, three of
\* the framework, then a success at the sixth check.
C21_Witness ==
    /\ command.pc = "done"
    /\ command.outcomes = <<"Psycopg2OpError", "Psycopg2OpError", "OperationalError",
                            "OperationalError", "OperationalError", "True">>

ManagerOps == {"orm_create_user", "orm_create_superuser"}

\* C22: create_superuser(email, password) stores what create_user(email,
\* password) would store (one new row under the next id, the email
\* normalized, the password encoded) with is_staff and is_superuser both
\* set, and fails where create_user fails; a user made by create_user
\* without extra fields has both flags unset.
C22_Step ==
    LET p == request'.payload
        c == create_user(users, seq.user, p.email, p.password, "")
        id == response'.data.id
    IN  /\ request'.op = "orm_create_superuser" =>
              /\ response'.data.raised = c.raised
              /\ c.raised # "" => users' = c.users
              /\ c.raised = "" =>
                    /\ id = c.id /\ id \notin DOMAIN users
                    /\ DOMAIN users' = DOMAIN users \cup {id}
                    /\ \A u \in DOMAIN users : users'[u] = users[u]
                    /\ users'[id] = [c.users[id] EXCEPT !.is_staff = TRUE,
                                                        !.is_superuser = TRUE]
                    /\ users'[id].email = normalize_email(p.email)
                    /\ users'[id].password # p.password
                    /\ check_password(p.password, users'[id].password)
                    /\ users'[id].is_staff /\ users'[id].is_superuser
        /\ request'.op = "orm_create_user" /\ response'.data.raised = "" =>
              /\ ~users'[id].is_staff
              /\ ~users'[id].is_superuser

C22_Superuser == [][C22_Step]_vars

\* A superuser made from an email with an uppercase domain stands beside a
\* user made by create_user.
C22_Witness ==
    /\ request.op = "orm_create_superuser"
    /\ request.payload.email.domain = "X"
    /\ response.data.raised = ""
    /\ users[response.data.id].is_superuser
    /\ \E u \in DOMAIN users : ~users[u].is_staff

\* C23: create_user and create_superuser called with '' or None as the
\* email raise a ValueError and leave the User table and its sequence as
\* they were.
C23_Step ==
    (request'.op \in ManagerOps /\ request'.payload.email \in FalsyEmails) =>
        /\ response'.data.raised = "ValueError"
        /\ UNCHANGED <<users, seq, tokens>>

C23_EmailRequired == [][C23_Step]_vars

\* create_superuser with '' was refused while the table holds a user.
C23_Witness ==
    /\ request.op = "orm_create_superuser"
    /\ request.payload.email = BlankEmail
    /\ response.data.raised = "ValueError"
    /\ users # EmptyDict

\* C24: a recipe create is all-or-nothing: it answers 201 with the recipe
\* row stored and a row of every embedded tag name associated, or it
\* answers an error and leaves the Recipe, Tag and Ingredient tables, the
\* associations among them, as they were.
C24_Step ==
    LET u == request'.user
        p == request'.payload
        id == request'.id
        names == IF "tags" \in DOMAIN p THEN Range(p["tags"]) ELSE {}
    IN  request'.op = "recipe_create" =>
            \/ /\ response'.status = 201
               /\ id \in DOMAIN recipes' \ DOMAIN recipes
               /\ \A n \in names : recipes'[id].tags \cap RowsNamed(tags', u, n) # {}
            \/ /\ response'.status # 201
               /\ UNCHANGED <<recipes, tags, ingredients>>

C24_AllOrNothing == [][C24_Step]_vars

\* C25: no user owns two Tag rows of one name, nor two Ingredient rows of
\* one name.
C25_UniqueNames ==
    \A u \in Users, n \in Names :
        /\ Cardinality(RowsNamed(tags, u, n)) <= 1
        /\ Cardinality(RowsNamed(ingredients, u, n)) <= 1

\* C26: every Tag and every Ingredient associated with a recipe is a
\* stored row owned by the owner of the recipe.
C26_SameOwner ==
    \A r \in DOMAIN recipes :
        /\ \A t \in recipes[r].tags :
              t \in DOMAIN tags /\ tags[t].user = recipes[r].user
        /\ \A i \in recipes[r].ingredients :
              i \in DOMAIN ingredients /\ ingredients[i].user = recipes[r].user

\* A recipe carries a tag of a name under which another user owns a row
\* too: the lookup by name had a row of another owner to pick.
C26_Witness ==
    \E r \in DOMAIN recipes, t \in DOMAIN tags :
        /\ tags[t].user # recipes[r].user
        /\ \E own \in recipes[r].tags : tags[own].name = tags[t].name

=============================================================================
